---- MODULE Spec2Model ----
(***************************************************************************)
(* The MCP adapter of zerank-mcp: MCPServer.handleRequest and the handlers *)
(* it dispatches to, the request and response schemas, and the outbound    *)
(* call to the reranking endpoint.                                         *)
(*                                                                         *)
(* Representation of JavaScript values:                                    *)
(*   - a string that the code only compares or passes through (jsonrpc,    *)
(*     method, id, tool name) is a TLA+ string; Undefined stands for the   *)
(*     JavaScript value undefined and JsonNull for a JSON null;            *)
(*   - a string whose length or characters the code inspects (query, a     *)
(*     document, api_key) is [t |-> "string", s |-> <<characters>>];       *)
(*   - a number is [t |-> "number", n |-> k], k counted in tenths, so that *)
(*     0.9 is 9, 1 is 10 and 1.5 is 15;                                    *)
(*   - an object is a record; a key that JSON.stringify omits is absent    *)
(*     from the record's domain.                                           *)
(***************************************************************************)
EXTENDS Integers, Sequences, FiniteSets, TLC

VARIABLES
    initialized,   \* instance -> this.initialized
    log,           \* instance -> per dispatched request: was it an accepted initialize
    pc,            \* call -> position of the handleRequest invocation
    inst,          \* call -> the adapter instance it runs on
    request,       \* call -> the inbound request body
    frame,         \* call -> callTool's locals once it awaits the outbound call
    outbound,      \* call -> the outbound calls issued for the current request
    upstream,      \* call -> what the outbound call settled with
    hung,          \* calls whose outbound call never settles
    response       \* call -> what handleRequest's promise settled with

vars == <<initialized, log, pc, inst, request, frame, outbound, upstream, hung, response>>

-----------------------------------------------------------------------------
(* Bounds of the model *)

MaxCalls == 2        \* invocations of handleRequest that may be in flight together
MaxRequests == 2     \* requests received over a run
MaxShort == 2        \* length of the short strings and arrays that are enumerated

(* Program constants *)

PARSE_ERROR == -32700
INVALID_REQUEST == -32600
METHOD_NOT_FOUND == -32601
INVALID_PARAMS == -32602
INTERNAL_ERROR == -32603

QUERY_MIN == 1
QUERY_MAX == 10000
DOCUMENTS_MIN == 1
DOCUMENTS_MAX == 1000
API_KEY_MIN == 1
INDEX_MIN == 0
INDEX_MAX == 1000
SCORE_MIN == 0
SCORE_MAX == 1
RESULTS_MIN == 1
RESULTS_MAX == 1000

ERROR_STATUS == 500
NO_CONTENT_STATUS == 204
DEFAULT_STATUS == 200

ZERANK_API_BASE == "https://api.zeroentropy.dev/v1/models/rerank"

-----------------------------------------------------------------------------
(* JavaScript values *)

Undefined == "undefined"
JsonNull == "null"
EmptyObject == <<>>

Num(k) == [t |-> "number", n |-> k]
Whole(i) == Num(i * 10)
NotANumber == [t |-> "string", n |-> 0]
MissingNumber == [t |-> "undefined", n |-> 0]

Str(s) == [t |-> "string", s |-> s]
MissingString == [t |-> "undefined", s |-> <<>>]
NumberForString == [t |-> "number", s |-> <<>>]

Arr(a) == [t |-> "array", a |-> a]
MissingArray == [t |-> "undefined", a |-> <<>>]
StringForArray == [t |-> "string", a |-> <<>>]

Rep(x, n) == [i \in 1..n |-> x]

IsInteger(v) == v.n % 10 = 0

(* String.prototype.trim: the string without its leading and trailing
   white space. *)
IsSpace(c) == c \in {" ", "\t", "\n"}

RECURSIVE TrimStart(_)
TrimStart(s) ==
    IF s /= <<>> /\ IsSpace(Head(s)) THEN TrimStart(Tail(s)) ELSE s

RECURSIVE TrimEnd(_)
TrimEnd(s) ==
    IF s /= <<>> /\ IsSpace(s[Len(s)]) THEN TrimEnd(SubSeq(s, 1, Len(s) - 1)) ELSE s

Trim(s) == TrimEnd(TrimStart(s))

(* An Error object: its name and its message, the message as the sequence
   of the parts a template literal concatenates. *)
Err(name, message) == [name |-> name, message |-> message]

Includes(message, part) == \E i \in 1..Len(message) : message[i] = part

-----------------------------------------------------------------------------
(* The zod schemas. A schema is modelled by the issues its parse collects;
   parse throws a ZodError exactly when there is at least one. *)

(* z.string().min(lo).max(hi); hi < 0 stands for no upper bound *)
StringIssues(path, v, lo, hi) ==
    IF v.t /= "string" THEN << <<path, "invalid_type">> >>
    ELSE (IF Len(v.s) < lo THEN << <<path, "too_small">> >> ELSE <<>>)
      \o (IF hi >= 0 /\ Len(v.s) > hi THEN << <<path, "too_big">> >> ELSE <<>>)

(* The array schema without its refinement *)
DocumentsIssuesNoRefine(v) ==
    IF v.t /= "array" THEN << <<"documents", "invalid_type">> >>
    ELSE IF \E i \in 1..Len(v.a) : v.a[i].t /= "string"
         THEN << <<"documents[]", "invalid_type">> >>
    ELSE (IF Len(v.a) < DOCUMENTS_MIN THEN << <<"documents", "too_small">> >> ELSE <<>>)
      \o (IF Len(v.a) > DOCUMENTS_MAX THEN << <<"documents", "too_big">> >> ELSE <<>>)

(* z.array(z.string()).min(1).max(1000).refine(docs => docs.every(doc =>
   doc.trim().length > 0)): an element of the wrong type aborts the array,
   and the refinement then does not run. *)
DocumentsIssues(v) ==
    IF v.t /= "array" THEN << <<"documents", "invalid_type">> >>
    ELSE IF \E i \in 1..Len(v.a) : v.a[i].t /= "string"
         THEN << <<"documents[]", "invalid_type">> >>
    ELSE (IF Len(v.a) < DOCUMENTS_MIN THEN << <<"documents", "too_small">> >> ELSE <<>>)
      \o (IF Len(v.a) > DOCUMENTS_MAX THEN << <<"documents", "too_big">> >> ELSE <<>>)
      \o (IF \A i \in 1..Len(v.a) : Len(Trim(v.a[i].s)) > 0
          THEN <<>>
          ELSE << <<"documents", "Documents cannot be empty strings">> >>)

(* RerankRequestSchema: args is what params.arguments holds *)
RerankRequestIssues(args) ==
    IF args.k /= "object" THEN << <<"", "invalid_type">> >>
    ELSE StringIssues("query", args.query, QUERY_MIN, QUERY_MAX)
      \o DocumentsIssues(args.documents)
      \o StringIssues("api_key", args.api_key, API_KEY_MIN, -1)

(* The value RerankRequestSchema.parse returns: the three declared keys;
   z.object strips every other key. *)
RerankRequestSchema(args) ==
    [query |-> args.query, documents |-> args.documents, api_key |-> args.api_key]

ZodError(issues) == Err("ZodError", <<"ZodError">> \o [i \in 1..Len(issues) |-> issues[i][2]])

(* RerankResultSchema: index is z.number().int().min(0).max(1000) and
   relevance_score is z.number().min(0).max(1) *)
IndexOk(v) ==
    /\ v.t = "number"
    /\ IsInteger(v)
    /\ v.n >= INDEX_MIN * 10
    /\ v.n <= INDEX_MAX * 10

ScoreOk(v) ==
    /\ v.t = "number"
    /\ v.n >= SCORE_MIN * 10
    /\ v.n <= SCORE_MAX * 10

RerankResultIssues(r) ==
    (IF IndexOk(r.index) THEN <<>> ELSE << <<"index", "invalid">> >>)
    \o (IF ScoreOk(r.relevance_score) THEN <<>> ELSE << <<"relevance_score", "invalid">> >>)

(* RerankResponseSchema: results is z.array(RerankResultSchema).min(1).max(1000) *)
RerankResponseIssues(results) ==
    (IF \A i \in 1..Len(results) : RerankResultIssues(results[i]) = <<>>
     THEN <<>> ELSE << <<"results[]", "invalid">> >>)
    \o (IF Len(results) < RESULTS_MIN THEN << <<"results", "too_small">> >> ELSE <<>>)
    \o (IF Len(results) > RESULTS_MAX THEN << <<"results", "too_big">> >> ELSE <<>>)

-----------------------------------------------------------------------------
(* JSON.stringify and JSON.parse *)

(* JSON.stringify of a JSON-RPC envelope: a key whose value is undefined is
   omitted. Only id can be undefined in the envelopes the handlers build. *)
StringifyEnvelope(obj) ==
    IF "id" \in DOMAIN obj /\ obj.id = Undefined
    THEN [k \in (DOMAIN obj) \ {"id"} |-> obj[k]]
    ELSE obj

(* The tokens of a JSON text: punctuation, a quoted key, a number literal *)
Punct(c) == [t |-> "punct", s |-> c, n |-> 0]
Key(k) == [t |-> "key", s |-> k, n |-> 0]
Literal(v) == [t |-> "number", s |-> "", n |-> v.n]

StringifyResult(r) ==
    << Punct("{"), Key("index"), Punct(":"), Literal(r.index), Punct(","),
       Key("relevance_score"), Punct(":"), Literal(r.relevance_score), Punct("}") >>

(* The tokens one element takes, with the comma that separates it from the
   next *)
ResultStride == Len(StringifyResult([index |-> Num(0), relevance_score |-> Num(0)])) + 1

(* JSON.stringify(response, null, 2) of a validated RerankResponse, as the
   sequence of its tokens (white space left out) *)
StringifyRerankResponse(resp) ==
    LET n == Len(resp.results)
        body == [j \in 1..(IF n = 0 THEN 0 ELSE n * ResultStride - 1) |->
                    LET i == ((j - 1) \div ResultStride) + 1
                        o == ((j - 1) % ResultStride) + 1
                    IN IF o = ResultStride THEN Punct(",")
                       ELSE StringifyResult(resp.results[i])[o]]
    IN << Punct("{"), Key("results"), Punct(":"), Punct("[") >>
       \o body \o << Punct("]"), Punct("}") >>

(* JSON.parse of such a text: the object with the keys and the numbers the
   text holds *)
JsonParseRerankText(text) ==
    LET inner == Len(text) - 6
        n == IF inner = 0 THEN 0 ELSE (inner + 1) \div ResultStride
        at(i, o) == text[4 + (i - 1) * ResultStride + o]
    IN [k \in {text[2].s} |->
          [i \in 1..n |->
             [f \in {at(i, 2).s, at(i, 6).s} |->
                IF f = at(i, 2).s THEN Num(at(i, 4).n) ELSE Num(at(i, 8).n)]]]

-----------------------------------------------------------------------------
(* Responses and promise settlements *)

(* new Response(JSON.stringify(body), {status, headers}) *)
JsonResponse(status, body) ==
    [status |-> status, contentType |-> "application/json", body |-> StringifyEnvelope(body)]

Fulfilled(resp) == [settled |-> "fulfilled", value |-> resp]
Rejected(error) == [settled |-> "rejected", reason |-> error]
Pending == [settled |-> "pending"]

(* createErrorResponse(message, id = null, code): the default replaces an
   id that is undefined *)
createErrorResponse(message, id, code) ==
    JsonResponse(ERROR_STATUS,
        [jsonrpc |-> "2.0",
         error |-> [code |-> code, message |-> message],
         id |-> IF id = Undefined THEN JsonNull ELSE id])

handleInitializeResponse(id) ==
    JsonResponse(DEFAULT_STATUS,
        [jsonrpc |-> "2.0",
         id |-> id,
         result |-> [protocolVersion |-> "2024-11-05",
                     capabilities |-> [tools |-> EmptyObject],
                     serverInfo |-> [name |-> "zerank-mcp", version |-> "0.1.0"]]])

handleInitialized ==
    [status |-> NO_CONTENT_STATUS, contentType |-> "", body |-> EmptyObject]

(* A ping answered without the request's id *)
handlePingNullId(id) ==
    JsonResponse(DEFAULT_STATUS, [jsonrpc |-> "2.0", id |-> JsonNull, result |-> EmptyObject])

handlePing(id) ==
    JsonResponse(DEFAULT_STATUS, [jsonrpc |-> "2.0", id |-> id, result |-> EmptyObject])

ToolDescriptor ==
    [name |-> "get_reranking",
     description |-> "Get the reranked document listing",
     inputSchema |->
        [type |-> "object",
         properties |->
            [query |-> [type |-> "string", minLength |-> QUERY_MIN, maxLength |-> QUERY_MAX],
             documents |-> [type |-> "array", items |-> [type |-> "string"],
                            minItems |-> DOCUMENTS_MIN, maxItems |-> DOCUMENTS_MAX],
             api_key |-> [type |-> "string", minLength |-> API_KEY_MIN]],
         required |-> <<"query", "documents", "api_key">>]]

listTools(id) ==
    JsonResponse(DEFAULT_STATUS,
        [jsonrpc |-> "2.0", id |-> id, result |-> [tools |-> <<ToolDescriptor>>]])

(* The response callTool builds from what makeRerankRequest returned *)
callToolSuccess(id, rerankResponse) ==
    JsonResponse(DEFAULT_STATUS,
        [jsonrpc |-> "2.0",
         id |-> id,
         result |-> [content |-> << [type |-> "text",
                                     text |-> StringifyRerankResponse(rerankResponse)] >>]])

(* callTool's catch block *)
callToolCatch(error, id) == createErrorResponse(error.message, id, INVALID_PARAMS)

-----------------------------------------------------------------------------
(* The handlers, each up to its next await. A step either settles the
   promise handleRequest returned (to = "done") or leaves the invocation
   suspended on the outbound call (to = "fetch"). *)

NoFrame == [id |-> Undefined, validatedArgs |-> EmptyObject]
NoCall == EmptyObject

Settle(settlement, init) ==
    [to |-> "done", settle |-> settlement, init |-> init, frame |-> NoFrame, call |-> NoCall]

(* makeRerankRequest up to its await of fetch: the call it issues *)
makeRerankRequestCall(query, documents, apiKey) ==
    [url |-> ZERANK_API_BASE,
     method |-> "POST",
     headers |-> [Authorization |-> <<"Bearer ">> \o apiKey.s,
                  ContentType |-> "application/json"],
     body |-> [query |-> query, documents |-> documents]]

(* const { name, arguments: args } = params *)
DestructureThrows(params) == params.k \in {"undefined", "null"}
NameOf(params) == IF params.k = "object" THEN params.name ELSE Undefined
ArgumentsOf(params) == IF params.k = "object" THEN params.arguments ELSE [k |-> "undefined"]

(* callTool(params, id) up to the await of makeRerankRequest. It is an async
   function: what it throws outside its try block rejects its promise. *)
callToolStart(params, id) ==
    IF DestructureThrows(params)
    THEN Settle(Rejected(Err("TypeError", <<"Cannot destructure property 'name' of 'params'">>)),
                FALSE)
    ELSE IF NameOf(params) = "get_reranking"
    THEN LET issues == RerankRequestIssues(ArgumentsOf(params)) IN
         IF issues /= <<>>
         THEN Settle(Fulfilled(callToolCatch(ZodError(issues), id)), FALSE)
         ELSE LET validatedArgs == RerankRequestSchema(ArgumentsOf(params)) IN
              [to |-> "fetch", settle |-> Pending, init |-> FALSE,
               frame |-> [id |-> id, validatedArgs |-> validatedArgs],
               call |-> makeRerankRequestCall(validatedArgs.query,
                                              validatedArgs.documents,
                                              validatedArgs.api_key)]
    ELSE Settle(Fulfilled(createErrorResponse(<<"Unknown tool: ", NameOf(params)>>,
                                              id, METHOD_NOT_FOUND)), FALSE)

(* A property read on the parsed body: undefined on a number, a string, a
   boolean or an array of the JSON text *)
Prop(body, key) == IF body.k = "object" THEN body[key] ELSE Undefined
ParamsOf(body) == IF body.k = "object" THEN body.params ELSE [k |-> "undefined"]

Falsy(v) == v \in {Undefined, JsonNull, ""}

(* handleRequest's catch block *)
handleRequestCatch(error) == createErrorResponse(error.message, JsonNull, PARSE_ERROR)

(* return this.callTool(body.params, body.id): the promise is returned
   without await, so handleRequest's promise settles as callTool's does and
   handleRequest's catch block does not see its rejection. *)
ReturnCallTool(step) == step

(* handleRequest from the moment request.json() settles *)
handleRequestStep(raw) ==
    IF raw.k = "malformed"
    THEN Settle(Fulfilled(handleRequestCatch(Err("SyntaxError", <<"Unexpected token">>))), FALSE)
    ELSE IF raw.k = "null"
    THEN Settle(Fulfilled(handleRequestCatch(
                    Err("TypeError", <<"Cannot read properties of null (reading 'jsonrpc')">>))),
                FALSE)
    ELSE LET jsonrpc == Prop(raw, "jsonrpc")
             method == Prop(raw, "method")
             id == Prop(raw, "id")
         IN IF Falsy(jsonrpc) \/ jsonrpc /= "2.0"
            THEN Settle(Fulfilled(createErrorResponse(<<"Invalid JSON-RPC version">>,
                                                      id, INVALID_REQUEST)), FALSE)
            ELSE IF method = "initialize"
            THEN Settle(Fulfilled(handleInitializeResponse(id)), TRUE)
            ELSE IF method = "initialized"
            THEN Settle(Fulfilled(handleInitialized), FALSE)
            ELSE IF method = "ping"
            THEN Settle(Fulfilled(handlePing(id)), FALSE)
            ELSE IF method = "tools/list"
            THEN Settle(Fulfilled(listTools(id)), FALSE)
            ELSE IF method = "tools/call"
            THEN ReturnCallTool(callToolStart(ParamsOf(raw), id))
            ELSE Settle(Fulfilled(createErrorResponse(<<"Unknown method">>,
                                                      id, METHOD_NOT_FOUND)), FALSE)

(* makeRerankRequest's catch block: what it throws on *)
makeRerankRequestCatch(error) ==
    IF error.name = "TypeError" /\ Includes(error.message, "fetch")
    THEN Err("Error", <<"Request error: ">> \o error.message)
    ELSE error

ResponseOk(status) == status >= 200 /\ status <= 299

(* The status branches without the one for 429 *)
StatusErrorNo429(status) ==
    IF status = 401 THEN Err("Error", <<"Invalid API key">>)
    ELSE Err("Error", <<"API error: ", ToString(status)>>)

(* if (!response.ok) { ... }: the error thrown for a status *)
StatusError(status) ==
    IF status = 401 THEN Err("Error", <<"Invalid API key">>)
    ELSE IF status = 429 THEN Err("Error", <<"Rate limit exceeded">>)
    ELSE Err("Error", <<"API error: ", ToString(status)>>)

(* makeRerankRequest from the moment fetch settles, up to the await of
   response.json(): [throws, error] *)
makeRerankRequestAfterFetch(reply) ==
    IF reply.k = "failed"
    THEN [throws |-> TRUE, error |-> makeRerankRequestCatch(reply.error)]
    ELSE IF ~ResponseOk(reply.status)
    THEN [throws |-> TRUE, error |-> makeRerankRequestCatch(StatusError(reply.status))]
    ELSE [throws |-> FALSE, error |-> Err("", <<>>)]

(* A map that returns the elements in reverse order *)
MapResultsReversed(items) ==
    [i \in 1..Len(items) |->
        [index |-> IF items[Len(items) + 1 - i].k = "object"
                   THEN items[Len(items) + 1 - i].index ELSE MissingNumber,
         relevance_score |-> IF items[Len(items) + 1 - i].k = "object"
                             THEN items[Len(items) + 1 - i].relevance_score
                             ELSE MissingNumber]]

(* A map that keeps only the elements that satisfy RerankResultSchema *)
MapResultsFiltering(items) ==
    LET Keep(e) == e.k = "object" /\ IndexOk(e.index) /\ ScoreOk(e.relevance_score)
        kept == SelectSeq(items, Keep)
    IN [i \in 1..Len(kept) |->
           [index |-> kept[i].index, relevance_score |-> kept[i].relevance_score]]

(* result.results.map(r => ({index: r.index, relevance_score: r.relevance_score})) *)
MapThrows(items) == \E i \in 1..Len(items) : items[i].k = "null"
MapResults(items) ==
    [i \in 1..Len(items) |->
        [index |-> IF items[i].k = "object" THEN items[i].index ELSE MissingNumber,
         relevance_score |-> IF items[i].k = "object" THEN items[i].relevance_score
                             ELSE MissingNumber]]

(* makeRerankRequest from the moment response.json() settles:
   [throws, error, value] *)
makeRerankRequestAfterJson(payload) ==
    LET Throw(e) == [throws |-> TRUE, error |-> makeRerankRequestCatch(e), value |-> EmptyObject]
    IN IF payload.k = "malformed"
       THEN Throw(Err("SyntaxError", <<"Unexpected token">>))
       ELSE IF payload.k = "null"
       THEN Throw(Err("TypeError", <<"Cannot read properties of null (reading 'results')">>))
       ELSE IF payload.k = "scalar" \/ payload.results.k \in {"undefined", "falsy"}
       THEN Throw(Err("Error", <<"Invalid API response format">>))
       ELSE IF payload.results.k = "nonarray"
       THEN Throw(Err("TypeError", <<"result.results.map is not a function">>))
       ELSE IF MapThrows(payload.results.items)
       THEN Throw(Err("TypeError", <<"Cannot read properties of null (reading 'index')">>))
       ELSE LET mapped == MapResults(payload.results.items)
                issues == RerankResponseIssues(mapped)
            IN IF issues /= <<>>
               THEN Throw(ZodError(issues))
               ELSE [throws |-> FALSE, error |-> Err("", <<>>),
                     value |-> [results |-> mapped]]

-----------------------------------------------------------------------------
(* The inputs: request bodies and upstream replies *)

Instances == {"A", "B"}
Calls == 1..MaxCalls

RECURSIVE SeqsUpTo(_, _)
SeqsUpTo(S, n) ==
    IF n = 0 THEN {<<>>}
    ELSE LET shorter == SeqsUpTo(S, n - 1)
         IN shorter \cup {Append(q, x) : q \in {r \in shorter : Len(r) = n - 1}, x \in S}

Ids == {Undefined, JsonNull, "1", "2"}
JsonRpcs == {Undefined, "1.0", "2.0"}
Methods == {Undefined, "initialize", "initialized", "ping", "tools/list", "tools/call",
            "resources/list"}

BlankDocs == {Str(<<>>), Str(<<" ">>), Str(<<" ", "\t">>)}

BaseQuery == Str(<<"m", "l">>)
BaseDocuments == Arr(<<Str(<<"a">>), Str(<<"b">>)>>)
BaseKey == Str(<<"k">>)

Args(query, documents, api_key, extra) ==
    [k |-> "object", query |-> query, documents |-> documents, api_key |-> api_key,
     extra |-> extra]

BaseArgs == Args(BaseQuery, BaseDocuments, BaseKey, FALSE)

Queries ==
    {Str(Rep("a", n)) : n \in {QUERY_MIN - 1, QUERY_MIN, QUERY_MAX, QUERY_MAX + 1}}
    \cup {MissingString, NumberForString}

DocumentArrays ==
    {Arr(Rep(Str(<<"a">>), n)) : n \in 0..MaxShort}
    \cup {Arr(<<Str(<<" ", "a", " ">>)>>)}
    \cup {Arr(<<b>>) : b \in BlankDocs}
    \cup {Arr(<<Str(<<"a">>), b>>) : b \in BlankDocs}
    \cup {Arr(<<b, Str(<<"a">>)>>) : b \in BlankDocs}
    \cup {Arr(Rep(Str(<<"a">>), n)) : n \in {DOCUMENTS_MAX, DOCUMENTS_MAX + 1}}
    \cup {Arr([i \in 1..DOCUMENTS_MAX |-> IF i = DOCUMENTS_MAX THEN Str(<<" ">>) ELSE Str(<<"a">>)])}
    \cup {Arr(<<NumberForString>>), MissingArray, StringForArray}

ApiKeys == {Str(<<>>), Str(<<"k", "2">>), MissingString, NumberForString}

(* The arguments: the base call with one field varied at a time *)
ArgumentsSet ==
    {[k |-> "undefined"], [k |-> "null"], BaseArgs, Args(BaseQuery, BaseDocuments, BaseKey, TRUE)}
    \cup {Args(q, BaseDocuments, BaseKey, FALSE) : q \in Queries}
    \cup {Args(BaseQuery, d, BaseKey, FALSE) : d \in DocumentArrays}
    \cup {Args(BaseQuery, BaseDocuments, key, FALSE) : key \in ApiKeys}

Params(name, arguments) == [k |-> "object", name |-> name, arguments |-> arguments]

ParamsSet ==
    {[k |-> "undefined"], [k |-> "null"], [k |-> "scalar"]}
    \cup {Params("get_reranking", a) : a \in ArgumentsSet}
    \cup {Params(n, BaseArgs) : n \in {Undefined, "other_tool"}}

Body(jsonrpc, id, method, params) ==
    [k |-> "object", jsonrpc |-> jsonrpc, id |-> id, method |-> method, params |-> params]

Bodies ==
    {[k |-> "malformed"], [k |-> "null"], [k |-> "scalar"]}
    \cup {Body(v, id, m, [k |-> "undefined"]) : v \in JsonRpcs, id \in Ids, m \in Methods}
    \cup {Body(v, id, "tools/call", Params("get_reranking", BaseArgs)) :
              v \in JsonRpcs, id \in Ids}
    \cup {Body("2.0", id, "tools/call", p) : id \in {Undefined, "1"}, p \in ParamsSet}

Element(index, relevance_score, extra) ==
    [k |-> "object", index |-> index, relevance_score |-> relevance_score, extra |-> extra]

GoodElements ==
    {Element(Whole(0), Num(9), FALSE), Element(Whole(1), Num(2), FALSE),
     Element(Whole(INDEX_MAX), Num(SCORE_MAX * 10), TRUE)}

BadElements ==
    {Element(ix, Num(9), FALSE) :
        ix \in {Whole(INDEX_MAX + 1), Whole(INDEX_MIN - 1), Num(15), NotANumber, MissingNumber}}
    \cup {Element(Whole(0), sc, FALSE) :
        sc \in {Num(SCORE_MAX * 10 + 1), Num(SCORE_MIN * 10 - 1), NotANumber, MissingNumber}}
    \cup {[k |-> "null", index |-> MissingNumber, relevance_score |-> MissingNumber,
           extra |-> FALSE],
          [k |-> "scalar", index |-> MissingNumber, relevance_score |-> MissingNumber,
           extra |-> FALSE]}

FirstGood == Element(Whole(0), Num(9), FALSE)

ResultArrays ==
    SeqsUpTo(GoodElements, MaxShort)
    \cup {<<Element(Whole(INDEX_MIN), Num(SCORE_MIN * 10), FALSE)>>}
    \cup {<<b>> : b \in BadElements}
    \cup {<<FirstGood, b>> : b \in BadElements}
    \cup {<<b, FirstGood>> : b \in BadElements}
    \cup {Rep(FirstGood, n) : n \in {RESULTS_MAX, RESULTS_MAX + 1}}

Results(kind, items) == [k |-> kind, items |-> items]

Payload(results, extra) == [k |-> "object", results |-> results, extra |-> extra]

Payloads ==
    {[k |-> "malformed"], [k |-> "null"], [k |-> "scalar"]}
    \cup {Payload(Results(kind, <<>>), FALSE) : kind \in {"undefined", "falsy", "nonarray"}}
    \cup {Payload(Results("array", items), FALSE) : items \in ResultArrays}
    \cup {Payload(Results("array", <<FirstGood>>), TRUE)}

Reply(status, payload) == [k |-> "response", status |-> status, payload |-> payload]
Failed(error) == [k |-> "failed", error |-> error]

FailedStatuses == {401, 429, 500, 404, 199, 300}

Replies ==
    {Reply(st, [k |-> "malformed"]) : st \in FailedStatuses}
    \cup {Reply(200, pl) : pl \in Payloads}
    \cup {Reply(299, Payload(Results("array", <<FirstGood>>), FALSE))}
    \cup {Failed(Err("TypeError", <<"fetch", " failed">>)),
          Failed(Err("TypeError", <<"Network connection lost.">>)),
          Failed(Err("AbortError", <<"The operation was aborted">>))}

NoRequest == [k |-> "none"]
NoReply == [k |-> "none"]

-----------------------------------------------------------------------------
(* The state machine *)

Init ==
    /\ initialized = [i \in Instances |-> FALSE]
    /\ log = [i \in Instances |-> <<>>]
    /\ pc = [s \in Calls |-> "idle"]
    /\ inst = [s \in Calls |-> "A"]
    /\ request = [s \in Calls |-> NoRequest]
    /\ frame = [s \in Calls |-> NoFrame]
    /\ outbound = [s \in Calls |-> <<>>]
    /\ upstream = [s \in Calls |-> NoReply]
    /\ hung = {}
    /\ response = [s \in Calls |-> Pending]

Received ==
    Len(log["A"]) + Len(log["B"]) + Cardinality({s \in Calls : pc[s] = "body"})

(* handleRequest(request) is called on instance i: it runs to its first
   await, of request.json() *)
Receive(s, i, raw) ==
    /\ pc[s] = "idle"
    /\ pc' = [pc EXCEPT ![s] = "body"]
    /\ inst' = [inst EXCEPT ![s] = i]
    /\ request' = [request EXCEPT ![s] = raw]
    /\ UNCHANGED <<initialized, log, frame, outbound, upstream, hung, response>>

(* An initialize request with jsonrpc "2.0" *)
AcceptedInitialize(raw) ==
    raw.k = "object" /\ raw.jsonrpc = "2.0" /\ raw.method = "initialize"

(* A flag that holds whether the last request was an initialize *)
handleInitializeFlagLast(flag, init) == init

(* this.initialized = true in handleInitialize *)
handleInitializeFlag(flag, init) == IF init THEN TRUE ELSE flag

(* A handleRequest that answers invalid request to every method but
   initialize until the instance is initialized *)
BodyReadGated(s) ==
    /\ pc[s] = "body"
    /\ LET gated == /\ ~initialized[inst[s]]
                     /\ request[s].k = "object"
                     /\ request[s].jsonrpc = "2.0"
                     /\ request[s].method /= "initialize"
            step == IF gated
                    THEN Settle(Fulfilled(createErrorResponse(<<"Not initialized">>,
                                    request[s].id, INVALID_REQUEST)), FALSE)
                    ELSE handleRequestStep(request[s])
        IN
        /\ pc' = [pc EXCEPT ![s] = step.to]
        /\ initialized' = [initialized EXCEPT ![inst[s]] = IF step.init THEN TRUE ELSE @]
        /\ log' = [log EXCEPT ![inst[s]] = Append(@, AcceptedInitialize(request[s]))]
        /\ frame' = [frame EXCEPT ![s] = step.frame]
        /\ outbound' = [outbound EXCEPT
                           ![s] = IF step.to = "fetch" THEN Append(@, step.call) ELSE @]
        /\ response' = [response EXCEPT ![s] = step.settle]
    /\ UNCHANGED <<inst, request, upstream, hung>>

(* request.json() settles and handleRequest runs on: to its return, or
   through callTool and makeRerankRequest to the await of fetch *)
BodyRead(s) ==
    /\ pc[s] = "body"
    /\ LET step == handleRequestStep(request[s]) IN
        /\ pc' = [pc EXCEPT ![s] = step.to]
        /\ initialized' = [initialized EXCEPT
                              ![inst[s]] = handleInitializeFlag(@, step.init)]
        /\ log' = [log EXCEPT ![inst[s]] = Append(@, AcceptedInitialize(request[s]))]
        /\ frame' = [frame EXCEPT ![s] = step.frame]
        /\ outbound' = [outbound EXCEPT
                           ![s] = IF step.to = "fetch" THEN Append(@, step.call) ELSE @]
        /\ response' = [response EXCEPT ![s] = step.settle]
    /\ UNCHANGED <<inst, request, upstream, hung>>

(* An id kept in a field of the instance: the continuation reads the id of
   the call that started last among those awaiting the outbound call *)
ResumeIdShared(frames, s) ==
    LET waiting == {t \in DOMAIN frames : frames[t] /= NoFrame}
        last == CHOOSE t \in waiting : \A u \in waiting : u <= t
    IN frames[last].id

(* The id callTool's continuation uses: its own parameter *)
ResumeId(frames, s) == frames[s].id

(* A makeRerankRequest that issues the call a second time when the first
   is answered 429 *)
FetchSettledRetrying(s, reply) ==
    /\ pc[s] = "fetch"
    /\ s \notin hung
    /\ upstream' = [upstream EXCEPT ![s] = reply]
    /\ LET after == makeRerankRequestAfterFetch(reply)
           again == reply.k = "response" /\ reply.status = 429 /\ Len(outbound[s]) = 1
       IN
        /\ outbound' = [outbound EXCEPT ![s] = IF again THEN Append(@, @[1]) ELSE @]
        /\ IF again
           THEN UNCHANGED <<pc, response>>
           ELSE IF after.throws
           THEN /\ pc' = [pc EXCEPT ![s] = "done"]
                /\ response' = [response EXCEPT
                       ![s] = Fulfilled(callToolCatch(after.error, ResumeId(frame, s)))]
           ELSE /\ pc' = [pc EXCEPT ![s] = "json"]
                /\ UNCHANGED response
    /\ UNCHANGED <<initialized, log, inst, request, frame, hung>>

(* fetch settles with reply: makeRerankRequest throws, and callTool's catch
   block answers, or it awaits response.json() *)
FetchSettled(s, reply) ==
    /\ pc[s] = "fetch"
    /\ s \notin hung
    /\ upstream' = [upstream EXCEPT ![s] = reply]
    /\ LET after == makeRerankRequestAfterFetch(reply) IN
        IF after.throws
        THEN /\ pc' = [pc EXCEPT ![s] = "done"]
             /\ response' = [response EXCEPT
                    ![s] = Fulfilled(callToolCatch(after.error, ResumeId(frame, s)))]
        ELSE /\ pc' = [pc EXCEPT ![s] = "json"]
             /\ UNCHANGED response
    /\ UNCHANGED <<initialized, log, inst, request, frame, outbound, hung>>

(* response.json() settles: makeRerankRequest validates the payload and
   callTool returns its response *)
JsonRead(s) ==
    /\ pc[s] = "json"
    /\ LET after == makeRerankRequestAfterJson(upstream[s].payload) IN
        response' = [response EXCEPT
            ![s] = IF after.throws
                   THEN Fulfilled(callToolCatch(after.error, ResumeId(frame, s)))
                   ELSE Fulfilled(callToolSuccess(ResumeId(frame, s), after.value))]
    /\ pc' = [pc EXCEPT ![s] = "done"]
    /\ UNCHANGED <<initialized, log, inst, request, frame, outbound, upstream, hung>>

(* The outbound call of s never settles: the code sets no timeout *)
FetchHangs(s) ==
    /\ pc[s] = "fetch"
    /\ s \notin hung
    /\ hung' = hung \cup {s}
    /\ UNCHANGED <<initialized, log, pc, inst, request, frame, outbound, upstream, response>>

(* The caller has the settled promise; the invocation is over *)
Deliver(s) ==
    /\ pc[s] = "done"
    /\ pc' = [pc EXCEPT ![s] = "idle"]
    /\ request' = [request EXCEPT ![s] = NoRequest]
    /\ frame' = [frame EXCEPT ![s] = NoFrame]
    /\ outbound' = [outbound EXCEPT ![s] = <<>>]
    /\ upstream' = [upstream EXCEPT ![s] = NoReply]
    /\ response' = [response EXCEPT ![s] = Pending]
    /\ UNCHANGED <<initialized, log, inst, hung>>

(* One adapter instance, one request at a time, every request body and
   every upstream reply *)
Next ==
    \/ \E raw \in Bodies : Received < MaxRequests /\ Receive(1, "A", raw)
    \/ BodyRead(1)
    \/ \E reply \in Replies : FetchSettled(1, reply)
    \/ JsonRead(1)
    \/ FetchHangs(1)
    \/ Deliver(1)

Spec == Init /\ [][Next]_vars

(* Two adapter instances, A serving call 1 and B serving call 2, each given
   its own sequence of requests *)
OtherArgs == Args(Str(<<"q">>), Arr(<<Str(<<"c">>)>>), Str(<<"k", "2">>), FALSE)
BlankArgs == Args(BaseQuery, Arr(<<Str(<<" ">>)>>), BaseKey, FALSE)

FirstPayload == Payload(Results("array",
                    <<Element(Whole(1), Num(8), FALSE), Element(Whole(0), Num(1), FALSE)>>), FALSE)
BadPayload == Payload(Results("array", <<Element(Whole(0), Num(11), FALSE)>>), FALSE)

PairBodies ==
    {[k |-> "malformed"]}
    \cup {Body("2.0", id, m, [k |-> "undefined"]) :
              id \in {"1", Undefined},
              m \in {"initialize", "ping", "tools/list", "tools/call", "resources/list"}}
    \cup {Body("1.0", "1", "ping", [k |-> "undefined"])}
    \cup {Body("2.0", "1", "tools/call", Params("get_reranking", a)) :
              a \in {BaseArgs, BlankArgs}}

PairReplies == {Reply(200, FirstPayload), Reply(200, BadPayload), Reply(401, [k |-> "malformed"])}

InstanceOf(s) == IF s = 1 THEN "A" ELSE "B"

NextPair ==
    \/ \E s \in {1, 2}, raw \in PairBodies :
          Received < MaxRequests + 1 /\ Receive(s, InstanceOf(s), raw)
    \/ \E s \in {1, 2} : BodyRead(s)
    \/ \E s \in {1, 2}, reply \in PairReplies : FetchSettled(s, reply)
    \/ \E s \in {1, 2} : JsonRead(s)
    \/ \E s \in {1, 2} : Deliver(s)

SpecPair == Init /\ [][NextPair]_vars

(* One adapter instance with up to MaxCalls invocations of handleRequest in
   flight, interleaved at their awaits *)
ConcBodies ==
    {Body("2.0", "1", "initialize", [k |-> "undefined"]),
     Body("2.0", "2", "ping", [k |-> "undefined"]),
     Body("2.0", "1", "tools/call", Params("get_reranking", BaseArgs)),
     Body("2.0", "2", "tools/call", Params("get_reranking", OtherArgs))}

ConcReplies == {Reply(200, FirstPayload), Reply(401, [k |-> "malformed"])}

NextConc ==
    \/ \E s \in Calls, raw \in ConcBodies : Received < MaxRequests /\ Receive(s, "A", raw)
    \/ \E s \in Calls : BodyRead(s)
    \/ \E s \in Calls, reply \in ConcReplies : FetchSettled(s, reply)
    \/ \E s \in Calls : JsonRead(s)
    \/ \E s \in Calls : FetchHangs(s)

SpecConc == Init /\ [][NextConc]_vars

(* The continuation of call s that is ready to run *)
Resume(s) ==
    \/ BodyRead(s)
    \/ \E reply \in ConcReplies : FetchSettled(s, reply)
    \/ JsonRead(s)

(* The event loop does not stop while a continuation is ready, and an
   outbound call that does not hang settles *)
FairConc == SpecConc /\ WF_vars(\E s \in Calls : Resume(s))

-----------------------------------------------------------------------------
(* What a caller sees of a settled invocation *)

Done(s) == pc[s] = "done"
Returned(s) == Done(s) /\ response[s].settled = "fulfilled"
IsError(resp) == "error" \in DOMAIN resp.body /\ "result" \notin DOMAIN resp.body
IsResult(resp) == "result" \in DOMAIN resp.body /\ "error" \notin DOMAIN resp.body
IsNotificationAck(resp) == resp.status = NO_CONTENT_STATUS /\ resp.body = EmptyObject
ErrorWithCode(s, code) ==
    /\ Returned(s)
    /\ IsError(response[s].value)
    /\ response[s].value.body.error.code = code

IsToolsCall(raw) ==
    raw.k = "object" /\ raw.jsonrpc = "2.0" /\ raw.method = "tools/call"

IsGetReranking(raw) ==
    IsToolsCall(raw) /\ raw.params.k = "object" /\ raw.params.name = "get_reranking"

-----------------------------------------------------------------------------
(* C1: every invocation of handleRequest ends with its promise fulfilled by
   a JSON-RPC response, a result or an error object with a code and a
   message (or by the empty acknowledgement of the initialized
   notification); the promise is never rejected. *)
C1_AlwaysJsonRpcResponse ==
    \A s \in Calls :
        Done(s) =>
            /\ response[s].settled = "fulfilled"
            /\ \/ IsNotificationAck(response[s].value)
               \/ IsResult(response[s].value)
               \/ /\ IsError(response[s].value)
                  /\ DOMAIN response[s].value.body.error = {"code", "message"}

-----------------------------------------------------------------------------
OnlyWhiteSpace(doc) == \A j \in 1..Len(doc.s) : doc.s[j] \in {" ", "\t", "\n"}

C2_Violates(args) ==
    /\ args.k = "object"
    /\ args.query.t = "string" /\ args.documents.t = "array" /\ args.api_key.t = "string"
    /\ \A j \in 1..Len(args.documents.a) : args.documents.a[j].t = "string"
    /\ \/ Len(args.query.s) < 1 \/ Len(args.query.s) > 10000
       \/ Len(args.documents.a) < 1 \/ Len(args.documents.a) > 1000
       \/ \E j \in 1..Len(args.documents.a) : OnlyWhiteSpace(args.documents.a[j])
       \/ Len(args.api_key.s) = 0

(* C2: a get_reranking call whose arguments violate RerankRequest (query
   length outside [1, 10000], documents length outside [1, 1000], a document
   that is empty or only white space, an empty api_key) is answered with
   error -32602, and no outbound call is issued for it at any moment. *)
C2_InvalidArgumentsNeverSent ==
    \A s \in Calls :
        (IsGetReranking(request[s]) /\ C2_Violates(request[s].params.arguments)) =>
            /\ outbound[s] = <<>>
            /\ pc[s] \in {"body", "done"}
            /\ Done(s) => ErrorWithCode(s, -32602)

C2_Witness ==
    \E s \in Calls :
        /\ IsGetReranking(request[s])
        /\ request[s].params.arguments.k = "object"
        /\ request[s].params.arguments.documents = Arr(<<Str(<<"a">>), Str(<<" ", "\t">>)>>)
        /\ ErrorWithCode(s, -32602)
        /\ outbound[s] = <<>>

-----------------------------------------------------------------------------
C3_GoodElement(e) ==
    /\ e.k = "object"
    /\ e.index.t = "number" /\ e.index.n % 10 = 0
    /\ e.index.n >= 0 /\ e.index.n <= 1000 * 10
    /\ e.relevance_score.t = "number"
    /\ e.relevance_score.n >= 0 /\ e.relevance_score.n <= 1 * 10

C3_GoodReply(reply) ==
    /\ reply.k = "response"
    /\ reply.status \in 200..299
    /\ reply.payload.k = "object"
    /\ reply.payload.results.k = "array"
    /\ Len(reply.payload.results.items) \in 1..1000
    /\ \A j \in 1..Len(reply.payload.results.items) :
           C3_GoodElement(reply.payload.results.items[j])

C3_Pairs(items) ==
    [j \in 1..Len(items) |->
        [index |-> items[j].index, relevance_score |-> items[j].relevance_score]]

(* C3: when the upstream reply to a valid get_reranking call is a success
   whose results array holds 1 to 1000 elements, each with an integer index
   in [0, 1000] and a relevance_score in [0, 1], the response is a success
   result with exactly one content item, of type "text", whose text parses
   to {results: [...]} with the same (index, relevance_score) pairs in the
   same order, and nothing else. *)
C3_RoundTrip ==
    \A s \in Calls :
        (Done(s) /\ C3_GoodReply(upstream[s])) =>
            /\ Returned(s)
            /\ IsResult(response[s].value)
            /\ DOMAIN response[s].value.body.result = {"content"}
            /\ Len(response[s].value.body.result.content) = 1
            /\ response[s].value.body.result.content[1].type = "text"
            /\ JsonParseRerankText(response[s].value.body.result.content[1].text)
                  = [results |-> C3_Pairs(upstream[s].payload.results.items)]

C3_Witness ==
    \E s \in Calls :
        /\ Done(s)
        /\ C3_GoodReply(upstream[s])
        /\ upstream[s].payload.results.items
              = <<Element(Whole(1), Num(2), FALSE), Element(Whole(0), Num(9), FALSE)>>
        /\ JsonParseRerankText(response[s].value.body.result.content[1].text)
              = [results |-> << [index |-> Whole(1), relevance_score |-> Num(2)],
                                [index |-> Whole(0), relevance_score |-> Num(9)] >>]

-----------------------------------------------------------------------------
C4_BadReply(reply) ==
    /\ reply.k = "response"
    /\ reply.status \in 200..299
    /\ reply.payload.k = "object"
    /\ \/ reply.payload.results.k = "undefined"
       \/ /\ reply.payload.results.k = "array"
          /\ \/ Len(reply.payload.results.items) = 0
             \/ Len(reply.payload.results.items) > 1000
             \/ \E j \in 1..Len(reply.payload.results.items) :
                    ~C3_GoodElement(reply.payload.results.items[j])

(* C4: fail closed. When a successful upstream reply lacks the results
   field, has an empty results array or one of more than 1000 elements, or
   holds an element whose index is not an integer in [0, 1000] or whose
   relevance_score is outside [0, 1], the response is an error, never a
   success result. *)
C4_FailClosed ==
    \A s \in Calls :
        (Done(s) /\ C4_BadReply(upstream[s])) =>
            /\ Returned(s)
            /\ IsError(response[s].value)

C4_Witness ==
    \E s \in Calls :
        /\ Done(s)
        /\ upstream[s] = Reply(200, Payload(Results("array",
                <<FirstGood, Element(Whole(1001), Num(9), FALSE)>>), FALSE))
        /\ Returned(s)
        /\ IsError(response[s].value)

-----------------------------------------------------------------------------
C5_ExpectedPart(status) ==
    IF status = 401 THEN "Invalid API key"
    ELSE IF status = 429 THEN "Rate limit exceeded"
    ELSE ToString(status)

(* C5: when the upstream status of a valid get_reranking call is not 2xx,
   the response is a JSON-RPC error whose message contains "Invalid API key"
   for 401, "Rate limit exceeded" for 429 and the status code itself for any
   other status. *)
C5_StatusDecidesMessage ==
    \A s \in Calls :
        (Done(s) /\ upstream[s].k = "response" /\ upstream[s].status \notin 200..299) =>
            /\ Returned(s)
            /\ IsError(response[s].value)
            /\ \E j \in 1..Len(response[s].value.body.error.message) :
                   response[s].value.body.error.message[j] = C5_ExpectedPart(upstream[s].status)

C5_Witness ==
    \E s \in Calls :
        /\ Done(s)
        /\ upstream[s].k = "response"
        /\ upstream[s].status = 500
        /\ Returned(s)
        /\ IsError(response[s].value)
        /\ response[s].value.body.error.message = <<"API error: ", "500">>

-----------------------------------------------------------------------------
C6_Parsed(raw) == raw.k \in {"null", "scalar", "object"}

C6_VersionOk(raw) == raw.k = "object" /\ raw.jsonrpc = "2.0"

C6_KnownMethods == {"initialize", "initialized", "ping", "tools/list", "tools/call"}

(* C6: a malformed JSON body is answered with parse error -32700; a body
   that parsed and whose jsonrpc field is missing or not "2.0" is answered
   with invalid request -32600 whatever its method, with no other effect (no
   outbound call, the session flag as it was); a body with jsonrpc "2.0" and
   a method outside initialize, initialized, ping, tools/list, tools/call is
   answered with method not found -32601. *)
C6_ProtocolErrorCodes ==
    \A s \in Calls :
        Done(s) =>
            /\ request[s].k = "malformed" => ErrorWithCode(s, -32700)
            /\ (C6_Parsed(request[s]) /\ ~C6_VersionOk(request[s])) =>
                  /\ ErrorWithCode(s, -32600)
                  /\ outbound[s] = <<>>
            /\ (C6_VersionOk(request[s]) /\ request[s].method \notin C6_KnownMethods) =>
                  ErrorWithCode(s, -32601)

-----------------------------------------------------------------------------
C7_CarriesId(raw) == raw.k = "object" /\ raw.id /= Undefined

(* C7: a response body returned for a request that parsed and carried an id
   carries that id; a ping, also one that follows an initialize, is answered
   with result {} and the ping's id. *)
C7_IdEchoed ==
    \A s \in Calls :
        /\ (Returned(s) /\ C7_CarriesId(request[s])
              /\ ~IsNotificationAck(response[s].value)) =>
              /\ "id" \in DOMAIN response[s].value.body
              /\ response[s].value.body.id = request[s].id
        /\ (Done(s) /\ C7_CarriesId(request[s]) /\ C6_VersionOk(request[s])
              /\ request[s].method = "ping") =>
              /\ Returned(s)
              /\ response[s].value.body
                    = [jsonrpc |-> "2.0", id |-> request[s].id, result |-> <<>>]

C7_Witness ==
    \E s \in Calls :
        /\ Done(s)
        /\ log[inst[s]] = <<TRUE, FALSE>>
        /\ C6_VersionOk(request[s])
        /\ request[s].method = "ping"
        /\ request[s].id = "2"
        /\ response[s].value.body = [jsonrpc |-> "2.0", id |-> "2", result |-> <<>>]

-----------------------------------------------------------------------------
C8_InitializeHandled(i) == \E j \in 1..Len(log[i]) : log[i][j]

C8_FlagStep ==
    \A i \in Instances :
        /\ initialized[i] => initialized'[i]
        /\ initialized'[i] /= initialized[i] =>
              \E s \in Calls :
                 /\ inst[s] = i
                 /\ pc[s] = "body" /\ pc'[s] = "done"
                 /\ request[s].k = "object"
                 /\ request[s].jsonrpc = "2.0"
                 /\ request[s].method = "initialize"
                 /\ IsResult(response'[s].value)
        /\ (\E s \in Calls : pc[s] /= "done" /\ pc'[s] = "done" /\ inst[s] = i
                               /\ response'[s].settled = "fulfilled"
                               /\ IsError(response'[s].value)) =>
              initialized'[i] = initialized[i]

(* C8: the session flag is false at creation; in every state it is true
   exactly when an initialize request with jsonrpc "2.0" has been handled on
   the instance; only the step that handles such a request changes it, no
   step that ends in an error does, and it never returns to false. *)
C8_SessionFlag ==
    /\ \A i \in Instances : initialized[i] = FALSE
    /\ [](\A i \in Instances : initialized[i] <=> C8_InitializeHandled(i))
    /\ [][C8_FlagStep]_vars

C8_Witness ==
    \E s \in Calls :
        /\ Done(s)
        /\ log[inst[s]] = <<TRUE, FALSE>>
        /\ initialized[inst[s]]
        /\ Returned(s)
        /\ IsError(response[s].value)

-----------------------------------------------------------------------------
C9_SameRequest(s, t) ==
    /\ Done(s) /\ Done(t)
    /\ request[s] = request[t]
    /\ upstream[s] = upstream[t]

C9_Accepted(s) ==
    /\ C6_VersionOk(request[s])
    /\ \/ request[s].method \in {"initialize", "ping", "tools/list"}
       \/ IsGetReranking(request[s]) /\ C3_GoodReply(upstream[s])

(* C9: the response depends only on the request and, for tools/call, on its
   own upstream reply: two instances given the same request, with the same
   upstream reply, after different request histories settle alike.
   tools/list always returns exactly one tool, named get_reranking, and no
   method is rejected for being called before initialize. *)
C9_HistoryIndependent ==
    /\ \A s, t \in Calls : C9_SameRequest(s, t) => response[s] = response[t]
    /\ \A s \in Calls :
          (Done(s) /\ C6_VersionOk(request[s]) /\ request[s].method = "tools/list") =>
              /\ Returned(s)
              /\ IsResult(response[s].value)
              /\ Len(response[s].value.body.result.tools) = 1
              /\ response[s].value.body.result.tools[1].name = "get_reranking"
    /\ \A s \in Calls :
          (Done(s) /\ C9_Accepted(s)) => (Returned(s) /\ IsResult(response[s].value))

C9_Witness ==
    /\ C9_SameRequest(1, 2)
    /\ inst[1] /= inst[2]
    /\ initialized[inst[1]] /\ ~initialized[inst[2]]
    /\ log[inst[1]] = <<TRUE, FALSE>>
    /\ log[inst[2]] = <<FALSE>>
    /\ C6_VersionOk(request[1])
    /\ request[1].method = "tools/list"
    /\ response[1] = response[2]
    /\ IsResult(response[2].value)

-----------------------------------------------------------------------------
C10_OwnCall(s) ==
    LET args == request[s].params.arguments IN
    /\ Len(outbound[s]) = 1
    /\ outbound[s][1].body = [query |-> args.query, documents |-> args.documents]
    /\ outbound[s][1].headers.Authorization = <<"Bearer ">> \o args.api_key.s

C10_OwnResponse(s) ==
    /\ Returned(s)
    /\ response[s].value.body.id = request[s].id
    /\ IF C3_GoodReply(upstream[s])
       THEN /\ IsResult(response[s].value)
            /\ JsonParseRerankText(response[s].value.body.result.content[1].text)
                  = [results |-> C3_Pairs(upstream[s].payload.results.items)]
       ELSE /\ IsError(response[s].value)
            /\ upstream[s].k = "response" =>
                  \E j \in 1..Len(response[s].value.body.error.message) :
                     response[s].value.body.error.message[j]
                        = C5_ExpectedPart(upstream[s].status)

C10_Isolated ==
    \A s \in Calls :
        /\ pc[s] \in {"fetch", "json"} => (IsGetReranking(request[s]) /\ C10_OwnCall(s))
        /\ (Done(s) /\ upstream[s] /= NoReply) => (C10_OwnCall(s) /\ C10_OwnResponse(s))
        /\ s \in hung => (pc[s] = "fetch" /\ response[s] = Pending)

(* C10: with several invocations in flight on one instance, under every
   interleaving, the outbound call of a tools/call carries its own
   arguments and its response is built from its own id and its own upstream
   reply; a call whose outbound call never settles stays suspended and
   blocks no other: every other invocation, in flight or received later,
   still completes. *)
C10_ConcurrentCalls ==
    /\ []C10_Isolated
    /\ <>[](\A s \in Calls : pc[s] = "idle" \/ Done(s) \/ s \in hung)

C10_Witness ==
    /\ hung = {1}
    /\ pc[1] = "fetch"
    /\ request[1].id = "1"
    /\ Done(2)
    /\ IsGetReranking(request[2])
    /\ request[2].id = "2"
    /\ request[2].params.arguments = OtherArgs
    /\ upstream[2] = Reply(200, FirstPayload)
    /\ C10_OwnResponse(2)

-----------------------------------------------------------------------------
C11_ValidArguments(args) ==
    /\ args.k = "object"
    /\ args.query.t = "string" /\ args.documents.t = "array" /\ args.api_key.t = "string"
    /\ Len(args.query.s) \in 1..10000
    /\ Len(args.documents.a) \in 1..1000
    /\ \A j \in 1..Len(args.documents.a) :
           /\ args.documents.a[j].t = "string"
           /\ ~OnlyWhiteSpace(args.documents.a[j])
    /\ Len(args.api_key.s) >= 1

C11_ValidCall(raw) ==
    IsGetReranking(raw) /\ C11_ValidArguments(raw.params.arguments)

C11_FailedReply(reply) == reply /= NoReply /\ ~C3_GoodReply(reply)

C11_Calls ==
    \A s \in Calls :
        /\ Len(outbound[s]) <= 1
        /\ pc[s] \in {"idle", "body"} => outbound[s] = <<>>
        /\ pc[s] \in {"fetch", "json", "done"} =>
               Len(outbound[s]) = IF C11_ValidCall(request[s]) THEN 1 ELSE 0
        /\ (Done(s) /\ C11_FailedReply(upstream[s])) =>
               /\ Returned(s)
               /\ IsError(response[s].value)
               /\ Len(outbound[s]) = 1

C11_Step ==
    \A s \in Calls :
        outbound'[s] /= outbound[s] =>
            \/ pc[s] = "body" /\ outbound[s] = <<>> /\ Len(outbound'[s]) = 1
            \/ pc[s] = "done" /\ pc'[s] = "idle" /\ outbound'[s] = <<>>

(* C11: no retry. Each inbound request causes at most one outbound call to
   the reranking endpoint: exactly one for a tools/call of get_reranking
   with valid arguments, none for every other request; the call is issued
   when the body is read and no step of the request issues another; when
   the call fails (401, 429, another status outside 200..299, a transport
   failure, a malformed payload) the request ends with an error response
   and still exactly one outbound call. *)
C11_NoRetry == []C11_Calls /\ [][C11_Step]_vars

C11_Witness ==
    /\ Done(1)
    /\ C11_ValidCall(request[1])
    /\ upstream[1] = Reply(429, [k |-> "malformed"])
    /\ ErrorWithCode(1, -32602)
    /\ Len(outbound[1]) = 1

====
